---- MODULE Spec2Model ----
(***************************************************************************)
(* A model of the Markov-chain text generator of text_generator.py:        *)
(* MarkovChainTextModel (the chains) and TextGenerator (training,          *)
(* next-token sampling, sentence and paragraph generation).                *)
(*                                                                         *)
(* Strings are sequences of one-character strings, so that Python's        *)
(* str.strip, the substring test `x in s` and capitalisation are computed  *)
(* and not assumed.  Floats are IEEE 754 doubles: a weight v / total and   *)
(* the running sum of next() are rounded as Python rounds them.  A value   *)
(* of random.random() is one of Den multiples of 2^-53 spread over [0, 1)  *)
(* or the largest of them all, 1 - 2^-53.                                  *)
(* Dictionaries keep insertion order (a distribution is a sequence of      *)
(* [k, v] items).                                                          *)
(***************************************************************************)
EXTENDS Integers, Sequences, FiniteSets, TLC

\* ------------------------------------------------------------------ bounds
MaxTokens == 3          \* longest training token list of those enumerated in full
MaxOrder == 2           \* largest markov_length passed to training
Den == 4                \* random.random() is near 0/Den .. (Den-1)/Den, or the largest
MaxHist == 2            \* longest history handed to next() directly
MaxSentences == 2       \* largest sentences_desired
MaxSentLen == 4         \* longest sentence, in tokens, that is followed
MaxRetries == 1         \* nested _gen_sentence retries until the recursion limit is hit
MaxSubstitutions == 2   \* longest list add_final_substitution is followed on

\* ------------------------------------------------------------ text, tokens
\* The tokens the training lists are drawn from: a word, the pronoun,
\* sentence-ending punctuation and a hyphen.
Tokens == {"cat", ".", "I", "-"}

\* The training list of the specification's example.
Example == <<"The", "cat", "sat", ".">>

\* A text in which one token is followed by two tokens, unequally often.
Weighted == <<"I", "I", "I", "I", ".">>

\* A text in which I is followed by I four times and by three other tokens
\* once each.
Rounded == <<"I", "I", "I", "I", "I", "I", "cat", "I", ".", "I", "-">>

\* A text with a one-character sentence and a longer one.
Dashed == <<"-", ".", "cat", ".">>

\* A text whose sentences can begin with a hyphen that a word follows.
Hyphened == <<"cat", ".", "-", "cat", ".", "-", ".">>

\* The characters of each token (and of the empty string next() can return).
Chars(t) ==
  CASE t = "The" -> <<"T", "h", "e">>
    [] t = "cat" -> <<"c", "a", "t">>
    [] t = "sat" -> <<"s", "a", "t">>
    [] t = "" -> <<>>
    [] OTHER -> <<t>>

\* Tokens that _token_list can produce in character mode: single characters.
CharTokens == {t \in Tokens : Len(Chars(t)) = 1}

\* Characters outside ASCII are named.
EmDash == "U+2014"
OneDotLeader == "U+2024"
Ellipsis == "U+2026"

punct_with_space_after == <<".", ",", "\\", ":", "!", "?", ";">>
sentence_ending_punct == <<".", "!", "?">>
punct_with_no_space_before == <<".", ",", "!", "?", ";", EmDash, OneDotLeader, "-", ":", "/">>
punct_with_no_space_after == <<EmDash, "-", "/", OneDotLeader>>

\* Python's `x in s` for strings: x is a contiguous substring of s.
InStr(x, s) ==
  \E i \in 1..(Len(s) + 1) :
    /\ i + Len(x) - 1 <= Len(s)
    /\ \A j \in 1..Len(x) : s[i + j - 1] = x[j]

\* `tok in s` for a token.
TokIn(tok, s) == InStr(Chars(tok), s)

Whitespace == {" ", "\n", "\t"}

RECURSIVE LStrip(_, _)
LStrip(s, set) ==
  IF s # <<>> /\ Head(s) \in set THEN LStrip(Tail(s), set) ELSE s

RECURSIVE RStrip(_, _)
RStrip(s, set) ==
  IF s # <<>> /\ s[Len(s)] \in set THEN RStrip(SubSeq(s, 1, Len(s) - 1), set) ELSE s

\* str.strip(chars): drop leading and trailing characters of the set.
Strip(s, set) == RStrip(LStrip(s, set), set)

Range(s) == {s[i] : i \in DOMAIN s}

UpperOf ==
  ("a" :> "A") @@ ("c" :> "C") @@ ("e" :> "E") @@ ("h" :> "H") @@
  ("s" :> "S") @@ ("t" :> "T") @@ ("i" :> "I")

\* str.upper() of one character.
Upper(c) == IF c \in DOMAIN UpperOf THEN UpperOf[c] ELSE c

\* c.isalpha() or c.isnumeric()
IsAlnum(c) == c \in (DOMAIN UpperOf) \cup {UpperOf[x] : x \in DOMAIN UpperOf}

\* Index of the first alphanumeric character, 0 when there is none
\* (the code's 0-based index or -1, shifted by one).
find_first_alphanumeric(w) ==
  IF \E i \in DOMAIN w : IsAlnum(w[i])
  THEN CHOOSE i \in DOMAIN w : IsAlnum(w[i]) /\ \A j \in 1..(i - 1) : ~IsAlnum(w[j])
  ELSE 0

\* capitalize(w): the first alphanumeric character in upper case.
capitalize(w) ==
  IF Len(w) < 2 THEN w
  ELSE LET f == find_first_alphanumeric(w)
       IN IF f = 0 THEN w
          ELSE SubSeq(w, 1, f - 1) \o <<Upper(w[f])>> \o SubSeq(w, f + 1, Len(w))

\* ---------------------------------------------------------------- floats
\* A Python float x, 0 or in [2^-MaxExp, 4), is <<l1, l2, l3, l4>> with
\* x = (l1 * Base^3 + l2 * Base^2 + l3 * Base + l4) / 2^FracBits and
\* l2, l3, l4 < Base.
Precision == 53         \* the significant bits of a float
Base == 2^15
FracBits == 15 * 4
MaxExp == FracBits - Precision

FZero == <<0, 0, 0, 0>>
FOne == <<Base, 0, 0, 0>>

\* The carries of the lower limbs taken up.
Carry(x) ==
  LET t3 == x[3] + x[4] \div Base
      t2 == x[2] + t3 \div Base
  IN <<x[1] + t2 \div Base, t2 % Base, t3 % Base, x[4] % Base>>

\* x is in [2^-g, 2^(1-g)) for g = Exponent(x).
Exponent(x) ==
  CHOOSE g \in -1..MaxExp : 2 * Base <= x[1] * 2^(g + 1) /\ x[1] * 2^(g + 1) < 4 * Base

\* The distance between the floats around x, in units of 2^-FracBits.
Ulp(x) == 2^(MaxExp + 1 - Exponent(x))

\* x, followed by further non-zero digits when sticky, rounded to the nearest
\* float, to the even one of two that are equally near.
Round(x, sticky) ==
  IF x[1] * 2^MaxExp < Base THEN x
  ELSE LET u == Ulp(x)
           q == x[4] \div u
           rem == x[4] % u
           up == \/ 2 * rem > u
                 \/ 2 * rem = u /\ (sticky \/ q % 2 = 1)
       IN Carry(<<x[1], x[2], x[3], (q + IF up THEN 1 ELSE 0) * u>>)

\* a + b
FAdd(a, b) == Round(Carry(<<a[1] + b[1], a[2] + b[2], a[3] + b[3], a[4] + b[4]>>), FALSE)

\* The digits of v / total by long division, and whether more would follow.
Quotient(v, total) ==
  LET n1 == (v % total) * Base
      n2 == (n1 % total) * Base
      n3 == (n2 % total) * Base
      n4 == (n3 % total) * Base
  IN [digits |-> <<(v \div total) * Base + n1 \div total, n2 \div total,
                   n3 \div total, n4 \div total>>,
      more |-> n4 % total # 0]

\* v / total for two floats that are whole numbers, total > 0
FDiv(v, total) == Round(Quotient(v, total).digits, Quotient(v, total).more)

\* a >= b
FGeq(a, b) ==
  \/ a = b
  \/ \E i \in 1..4 : a[i] > b[i] /\ \A j \in 1..(i - 1) : a[j] = b[j]

\* random.random() is a multiple of 2^-Precision in [0, 1): the one at or
\* below u / den, and the largest.
RandomAt(u, den) ==
  LET d == Quotient(u, den).digits
  IN <<d[1], d[2], d[3], d[4] - (d[4] % (2^MaxExp))>>

LargestRandom == <<Base - 1, Base - 1, Base - 1, Base - 2^MaxExp>>

\* ------------------------------------------------------------- training
to_hash_key(lst) == lst

EmptyMapping == [x \in {} |-> <<>>]

\* the_temp_mapping[first][word] += 1.0, creating the entries as needed.
PutItem(m, first, word) ==
  IF first \in DOMAIN m
  THEN IF \E j \in DOMAIN m[first] : m[first][j].k = word
       THEN [m EXCEPT ![first] =
               [j \in DOMAIN @ |-> IF @[j].k = word
                                   THEN [k |-> word, v |-> @[j].v + 1]
                                   ELSE @[j]]]
       ELSE [m EXCEPT ![first] = Append(@, [k |-> word, v |-> 1])]
  ELSE (first :> <<[k |-> word, v |-> 1]>>) @@ m

RECURSIVE addItemToTempMapping(_, _, _)
addItemToTempMapping(history, word, the_temp_mapping) ==
  IF Len(history) > 0
  THEN addItemToTempMapping(Tail(history), word,
                            PutItem(the_temp_mapping, to_hash_key(history), word))
  ELSE the_temp_mapping

\* The history of position i (0-based, as in the code) of token_list.
HistoryAt(token_list, i, markov_length) ==
  IF i <= markov_length
  THEN SubSeq(token_list, 1, i + 1)
  ELSE SubSeq(token_list, i - markov_length + 2, i + 1)

\* The loop taking every token after sentence-ending punctuation as a start.
RECURSIVE BuildLoop_any_follow(_, _, _, _)
BuildLoop_any_follow(token_list, markov_length, i, acc) ==
  IF i >= Len(token_list) - 1 THEN acc
  ELSE LET history == HistoryAt(token_list, i, markov_length)
           follow == token_list[i + 2]
           starts == IF TokIn(history[Len(history)], sentence_ending_punct)
                     THEN Append(acc.starts, follow)
                     ELSE acc.starts
       IN BuildLoop_any_follow(token_list, markov_length, i + 1,
                    [starts |-> starts,
                     temp |-> addItemToTempMapping(history, follow, acc.temp)])

\* The loop `for i in range(1, len(token_list) - 1)` from position i on;
\* acc is [starts, temp].
RECURSIVE BuildLoop(_, _, _, _)
BuildLoop(token_list, markov_length, i, acc) ==
  IF i >= Len(token_list) - 1 THEN acc
  ELSE LET history == HistoryAt(token_list, i, markov_length)
           follow == token_list[i + 2]
           starts == IF /\ TokIn(history[Len(history)], sentence_ending_punct)
                        /\ ~TokIn(follow, punct_with_space_after)
                     THEN Append(acc.starts, follow)
                     ELSE acc.starts
       IN BuildLoop(token_list, markov_length, i + 1,
                    [starts |-> starts,
                     temp |-> addItemToTempMapping(history, follow, acc.temp)])

RECURSIVE SumValues(_)
SumValues(followset) ==
  IF followset = <<>> THEN 0 ELSE Head(followset).v + SumValues(Tail(followset))

\* Normalize dividing by the number of distinct next tokens.
Normalize_by_len(the_temp_mapping) ==
  [first \in DOMAIN the_temp_mapping |->
     LET followset == the_temp_mapping[first]
     IN [j \in DOMAIN followset |->
           [k |-> followset[j].k, v |-> FDiv(followset[j].v, Len(followset))]]]

\* the_mapping[first] = dict([(k, v / total) for k, v in followset.items()])
Normalize(the_temp_mapping) ==
  [first \in DOMAIN the_temp_mapping |->
     LET followset == the_temp_mapping[first]
         total == SumValues(followset)
     IN [j \in DOMAIN followset |->
           [k |-> followset[j].k, v |-> FDiv(followset[j].v, total)]]]

\* _build_mapping whose loop starts at the first token.
build_mapping_from_first(token_list, markov_length, character_tokens) ==
  LET acc == BuildLoop(token_list, markov_length, 0,
                       [starts |-> <<token_list[1]>>, temp |-> EmptyMapping])
  IN [the_starts |-> acc.starts,
      the_mapping |-> Normalize(acc.temp),
      markov_length |-> markov_length,
      character_tokens |-> character_tokens]

\* _build_mapping of a non-empty token list: the chains it assigns.
build_mapping(token_list, markov_length, character_tokens) ==
  LET acc == BuildLoop(token_list, markov_length, 1,
                       [starts |-> <<token_list[1]>>, temp |-> EmptyMapping])
  IN [the_starts |-> acc.starts,
      the_mapping |-> Normalize(acc.temp),
      markov_length |-> markov_length,
      character_tokens |-> character_tokens]

\* ------------------------------------------------------------- sampling
\* Shorten that takes the shortest suffix of prevList that is a key.
Shorten_to_shortest(prevList, mapping) ==
  LET from == {j \in 1..Len(prevList) :
                 SubSeq(prevList, j, Len(prevList)) \in DOMAIN mapping}
  IN IF from = {}
     THEN [found |-> FALSE, lst |-> <<>>]
     ELSE LET j == CHOOSE x \in from : \A y \in from : y <= x
          IN [found |-> TRUE, lst |-> SubSeq(prevList, j, Len(prevList))]

\* `while to_hash_key(prevList) not in the_mapping: prevList.pop(0)`;
\* found is FALSE when pop(0) raised IndexError on the empty list.
RECURSIVE Shorten(_, _)
Shorten(prevList, mapping) ==
  IF to_hash_key(prevList) \in DOMAIN mapping THEN [found |-> TRUE, lst |-> prevList]
  ELSE IF prevList = <<>> THEN [found |-> FALSE, lst |-> <<>>]
  ELSE Shorten(Tail(prevList), mapping)

\* The loop without its `retval == ""` test and its break: the last key
\* whose running sum reaches index.
RECURSIVE PickFrom_last(_, _, _)
PickFrom_last(items, sum, index) ==
  IF items = <<>> THEN ""
  ELSE LET s == FAdd(sum, Head(items).v)
           later == PickFrom_last(Tail(items), s, index)
       IN IF later # "" THEN later
          ELSE IF FGeq(s, index) THEN Head(items).k ELSE ""

\* The loop over the matched distribution: the first key whose running sum
\* reaches index, "" when none does.
RECURSIVE PickFrom(_, _, _)
PickFrom(items, sum, index) ==
  IF items = <<>> THEN ""
  ELSE LET s == FAdd(sum, Head(items).v)
       IN IF FGeq(s, index) THEN Head(items).k
          ELSE PickFrom(Tail(items), s, index)

\* next on a dictionary that creates the entries it is asked for.
next_inserting(prevList, mapping, index) ==
  LET sh == Shorten(prevList, mapping)
  IN IF ~sh.found
     THEN [retval |-> ".", prevList |-> sh.lst,
           the_mapping |-> (to_hash_key(prevList) :> <<>>) @@ mapping]
     ELSE [retval |-> PickFrom(mapping[to_hash_key(sh.lst)], FZero, index),
           prevList |-> sh.lst,
           the_mapping |-> mapping]

\* TextGenerator.next, which is handed two mutable objects: the value
\* returned, the caller's list afterwards (it is shortened in place) and the
\* dictionary afterwards (it is only read).
next(prevList, mapping, index) ==
  LET sh == Shorten(prevList, mapping)
  IN IF ~sh.found
     THEN [retval |-> ".", prevList |-> sh.lst, the_mapping |-> mapping]
     ELSE [retval |-> PickFrom(mapping[to_hash_key(sh.lst)], FZero, index),
           prevList |-> sh.lst,
           the_mapping |-> mapping]

\* ---------------------------------------------------------------- state
VARIABLES
  the_starts,          \* chains.the_starts; None is the empty list (both falsy)
  the_mapping,         \* chains.the_mapping; None is the empty dictionary
  markov_length,       \* chains.markov_length
  character_tokens,    \* chains.character_tokens
  allow_single_character_sentences,
  final_substitutions, \* list of <<search, replace>>
  trained_tokens,      \* history: the token list of the last successful training
  raised,              \* the exception the last operation ended with, or "none"
  call,                \* the last direct call of next(): arguments and outcome
  pc,                  \* where _produce_text / _gen_sentence stand
  sentences_desired,
  paragraph_break_probability,
  which_sentence,
  the_text,            \* _produce_text's accumulated text
  yielded,             \* the paragraphs yielded so far
  curr,                \* _gen_sentence's locals
  sent,
  prevList,
  depth,               \* nested _gen_sentence calls below the one _produce_text made
  sent_tokens,         \* history: the tokens of the sentence being built
  pending,             \* history: sentences in the_text not yet yielded
  yielded_sentences,   \* history: sentences in each yielded paragraph
  flushed,             \* history: each yielded paragraph before the substitutions,
                       \* and the substitution list of that moment
  mode,                \* the random source: "free", or a run that is recorded
                       \* ("record") and then repeated on its values ("replay")
  tape,                \* the values drawn by the recorded run
  tpos,                \* the next value of the tape the repeated run draws
  first_yielded,       \* the paragraphs of the recorded run
  chains_file,         \* the pickled dictionary store_chains wrote: <<>> when there
                       \* is no file, else <<d>> with d the dictionary
  interpreter,         \* the chains of chain-interpreter's generator: <<>> when
                       \* none was constructed, else <<c>> with c its fields
  offered,             \* history: the last call of set_final_substitutions or
                       \* add_final_substitution, its arguments and the list before it
  reading              \* chain-interpreter's _gen_sentence: its position, its
                       \* locals, and (history) the sentence after each draw

chains == <<the_starts, the_mapping, markov_length, character_tokens>>
settings == <<allow_single_character_sentences, final_substitutions>>
producer == <<pc, sentences_desired, paragraph_break_probability, which_sentence,
              the_text, yielded, pending, yielded_sentences, flushed>>
sentence == <<curr, sent, prevList, depth, sent_tokens>>
source == <<mode, tape, tpos, first_yielded>>
storage == <<chains_file, interpreter>>
vars == <<the_starts, the_mapping, markov_length, character_tokens,
          allow_single_character_sentences, final_substitutions,
          trained_tokens, raised, call,
          pc, sentences_desired, paragraph_break_probability, which_sentence,
          the_text, yielded, curr, sent, prevList, depth,
          sent_tokens, pending, yielded_sentences, flushed,
          mode, tape, tpos, first_yielded,
          chains_file, interpreter, offered, reading>>

NoCall == [op |-> "none"]
NoOffer == [op |-> "none"]

\* chain-interpreter's _gen_sentence has not been called.
NotReading ==
  [pc |-> "idle", curr |-> "", sent |-> <<>>, prevList |-> <<>>, depth |-> 0,
   sent_tokens |-> <<>>, trace |-> <<>>]

\* All sequences over S of length 0 .. n.
SeqsUpTo(S, n) == UNION {[1..m -> S] : m \in 0..n}

Corpora == SeqsUpTo(Tokens, MaxTokens) \cup {Example, Weighted, Rounded}

\* The token lists a model that has been trained is trained on again.
RetrainCorpora == {<<>>, Example, Weighted}

\* The texts the repeated runs are trained on.
ReplayCorpora == {Example, Weighted, Dashed}

Orders == 1..MaxOrder
Draws == {RandomAt(u, Den) : u \in 0..(Den - 1)} \cup {LargestRandom}
Histories == (SeqsUpTo(Tokens, MaxHist) \ {<<>>}) \cup {<<Example[1]>>}

\* The entries of the default list whose pattern can match text made of the
\* modelled characters; each of these patterns matches one literal string.
DefaultSubstitutions ==
  << << <<"-", "-">>, <<EmDash>> >>,
     << <<".", ".", ".">>, <<Ellipsis>> >>,
     << <<OneDotLeader>>, <<".">> >>,
     << <<".", ".">>, <<".">> >>,
     << <<"-", " ">>, <<"-">> >>,
     << <<EmDash, "-">>, <<EmDash>> >>,
     << <<EmDash, EmDash>>, <<EmDash>> >>,
     << <<Ellipsis, EmDash>>, <<Ellipsis, " ", EmDash>> >> >>

\* MarkovChainTextModel.__init__ and TextGenerator.__init__
Init ==
  /\ the_starts = <<>>
  /\ the_mapping = EmptyMapping
  /\ markov_length = 0
  /\ character_tokens = FALSE
  /\ trained_tokens = <<>>
  /\ allow_single_character_sentences = FALSE
  /\ final_substitutions = DefaultSubstitutions
  /\ raised = "none"
  /\ call = NoCall
  /\ pc = "idle"
  /\ sentences_desired = 0
  /\ paragraph_break_probability = FDiv(1, 4)
  /\ which_sentence = 0
  /\ the_text = <<>>
  /\ yielded = <<>>
  /\ curr = ""
  /\ sent = <<>>
  /\ prevList = <<>>
  /\ depth = 0
  /\ sent_tokens = <<>>
  /\ pending = 0
  /\ yielded_sentences = <<>>
  /\ flushed = <<>>
  /\ mode = "free"
  /\ tape = <<>>
  /\ tpos = 1
  /\ first_yielded = <<>>
  /\ chains_file = <<>>
  /\ interpreter = <<>>
  /\ offered = NoOffer
  /\ reading = NotReading

\* _build_mapping that installs the new (empty) chains before it fails.
BuildMapping_assigning_first(token_list, K, cm) ==
  IF token_list = <<>>
  THEN /\ raised' = "IndexError"
       /\ the_starts' = <<>>
       /\ the_mapping' = EmptyMapping
       /\ markov_length' = K
       /\ character_tokens' = cm
       /\ UNCHANGED trained_tokens
  ELSE LET c == build_mapping(token_list, K, cm)
       IN /\ the_starts' = c.the_starts
          /\ the_mapping' = c.the_mapping
          /\ markov_length' = c.markov_length
          /\ character_tokens' = c.character_tokens
          /\ trained_tokens' = token_list
          /\ raised' = "none"

\* _build_mapping(token_list, markov_length, character_tokens): token_list[0]
\* raises IndexError on the empty list before anything is assigned.
BuildMapping(token_list, K, cm) ==
  IF token_list = <<>>
  THEN /\ raised' = "IndexError"
       /\ UNCHANGED <<chains, trained_tokens>>
  ELSE LET c == build_mapping(token_list, K, cm)
       IN /\ the_starts' = c.the_starts
          /\ the_mapping' = c.the_mapping
          /\ markov_length' = c.markov_length
          /\ character_tokens' = c.character_tokens
          /\ trained_tokens' = token_list
          /\ raised' = "none"

\* Training in word mode, or in character mode on single-character tokens;
\* a model that has been trained may be trained again, on a token list of
\* RetrainCorpora.
Train ==
  /\ call = NoCall
  /\ pc = "idle"
  /\ \E token_list \in Corpora, K \in Orders, cm \in BOOLEAN :
    /\ trained_tokens = <<>> \/ token_list \in RetrainCorpora
    /\ cm => \A i \in DOMAIN token_list : token_list[i] \in CharTokens
    /\ BuildMapping(token_list, K, cm)
    /\ UNCHANGED <<call, settings, producer, sentence, source>>
  /\ UNCHANGED <<storage, offered, reading>>

\* A direct call next(prevList, self.chains.the_mapping) on a trained model.
SampleNext ==
  /\ call = NoCall
  /\ pc = "idle"
  /\ the_mapping # EmptyMapping
  /\ \E h \in Histories, index \in Draws :
    /\ LET r == next(h, the_mapping, index)
       IN /\ call' = [op |-> "next", arg |-> h, index |-> index,
                      retval |-> r.retval, prevList |-> r.prevList]
          /\ the_mapping' = r.the_mapping
    /\ raised' = "none"
    /\ UNCHANGED <<the_starts, markov_length, character_tokens, trained_tokens,
                   settings, producer, sentence, source>>
  /\ UNCHANGED <<storage, offered, reading>>

NextTrain == Train

\* Training only.
SpecTrain == Init /\ [][NextTrain]_vars

NextModel == Train \/ SampleNext

\* Training and direct sampling only.
SpecModel == Init /\ [][NextModel]_vars

\* ------------------------------------------------------------ generation
Probabilities == {FZero, FDiv(1, 2), FOne}

\* The values random.choice(seq) can be drawn on: the positions of seq.
Choices(seq) == {<<s, 0>> : s \in DOMAIN seq}

\* random.choice(seq) on the value d.
choice(seq, d) == seq[d[1]]

\* The values a draw can take: any of S, or, in the repeated run, the next
\* value of the tape.
Drawable(S) ==
  IF mode = "replay"
  THEN IF tpos <= Len(tape) THEN {tape[tpos]} \cap S ELSE {}
  ELSE S

\* The random source after the value d was drawn.
Drawn(d) ==
  /\ tape' = IF mode = "record" THEN Append(tape, d) ELSE tape
  /\ tpos' = IF mode = "replay" THEN tpos + 1 ELSE tpos
  /\ UNCHANGED <<mode, first_yielded>>

\* is_trained() that looks at the start list only.
is_trained_by_starts == the_starts # <<>>

\* is_trained(): the three values are truthy.
is_trained == the_starts # <<>> /\ the_mapping # EmptyMapping /\ markov_length # 0

\* re.sub of a literal pattern: leftmost, non-overlapping occurrences.
RECURSIVE ReplaceAll(_, _, _)
ReplaceAll(text, search, replace) ==
  IF Len(text) < Len(search) \/ search = <<>> THEN text
  ELSE IF SubSeq(text, 1, Len(search)) = search
       THEN replace \o ReplaceAll(SubSeq(text, Len(search) + 1, Len(text)), search, replace)
       ELSE <<Head(text)>> \o ReplaceAll(Tail(text), search, replace)

\* th.multi_replace(text, substitutions): each substitution in list order.
RECURSIVE multi_replace(_, _)
multi_replace(text, substitutions) ==
  IF substitutions = <<>> THEN text
  ELSE multi_replace(ReplaceAll(text, Head(substitutions)[1], Head(substitutions)[2]),
                     Tail(substitutions))

\* The trimming loop with `>=` for `>`: one token fewer is kept.
Trim_one_fewer(lst, n) == IF Len(lst) >= n THEN SubSeq(lst, Len(lst) - n + 2, Len(lst)) ELSE lst

\* `while len(prevList) > markov_length: prevList.pop(0)`
Trim(lst, n) == IF Len(lst) > n THEN SubSeq(lst, Len(lst) - n + 1, Len(lst)) ELSE lst

\* The text _gen_sentence tests: sent.strip().strip(sentence_ending_punct).strip()
Residual(s) == Strip(Strip(Strip(s, Whitespace), Range(sentence_ending_punct)), Whitespace)

\* Rejected testing the sentence with its punctuation left on.
Rejected_unstripped(s) ==
  /\ ~allow_single_character_sentences
  /\ Len(Strip(s, Whitespace)) = 1
  /\ Upper(Strip(s, Whitespace)[1]) # "I"

\* The sentence is rejected and generated again.
Rejected(s) ==
  /\ ~allow_single_character_sentences
  /\ Len(Residual(s)) = 1
  /\ Upper(Residual(s)[1]) # "I"

\* `curr not in sentence_ending_punct`, the condition of the loop
Unfinished(token) == ~TokIn(token, sentence_ending_punct)

\* genny.allow_single_character_sentences = b
SetAllowSingle ==
  /\ pc = "idle"
  /\ call = NoCall
  /\ \E b \in BOOLEAN :
    /\ b # allow_single_character_sentences
    /\ allow_single_character_sentences' = b
    /\ raised' = "none"
    /\ UNCHANGED <<chains, final_substitutions, trained_tokens, call, producer,
                   sentence, source>>
  /\ UNCHANGED <<storage, offered, reading>>

\* _produce_text(sentences_desired, paragraph_break_probability) is called
\* and its first value requested.
ProduceStart ==
  /\ pc = "idle"
  /\ call = NoCall
  /\ \E n \in 0..MaxSentences, p \in Probabilities :
    /\ sentences_desired' = n
    /\ paragraph_break_probability' = p
    /\ which_sentence' = 0
    /\ the_text' = <<>>
    /\ yielded' = <<>>
    /\ pending' = 0
    /\ yielded_sentences' = <<>>
    /\ flushed' = <<>>
    /\ pc' = "loop"
    /\ raised' = "none"
    /\ UNCHANGED <<chains, settings, trained_tokens, call, sentence, source>>
  /\ UNCHANGED <<storage, offered, reading>>

\* The head of the loop body: a space after the previous sentence.
BeginSentence ==
  /\ pc = "loop"
  /\ which_sentence < sentences_desired
  /\ the_text' = IF the_text # <<>> /\ the_text[Len(the_text)] # "\n"
                 THEN the_text \o <<" ">>
                 ELSE the_text
  /\ pc' = "gen"
  /\ UNCHANGED <<chains, settings, trained_tokens, raised, call, sentences_desired,
                 paragraph_break_probability, which_sentence, yielded, pending,
                 yielded_sentences, flushed, sentence, source>>
  /\ UNCHANGED <<storage, offered, reading>>

\* _gen_sentence going on from the sentence of the call before.
EnterGenSentence_keeping_sent ==
  /\ pc = "gen"
  /\ IF ~is_trained
     THEN /\ pc' = "failed"
          /\ raised' = "AssertionError"
          /\ UNCHANGED <<curr, sent, prevList, sent_tokens, source>>
     ELSE \E d \in Drawable(Choices(the_starts)) :
            /\ curr' = choice(the_starts, d)
            /\ sent' = sent \o Chars(choice(the_starts, d))
            /\ prevList' = <<choice(the_starts, d)>>
            /\ sent_tokens' = <<choice(the_starts, d)>>
            /\ pc' = "extend"
            /\ raised' = raised
            /\ Drawn(d)
  /\ UNCHANGED <<chains, settings, trained_tokens, call, sentences_desired,
                 paragraph_break_probability, which_sentence, the_text, yielded,
                 pending, yielded_sentences, flushed, depth>>
  /\ UNCHANGED <<storage, offered, reading>>

\* _gen_sentence is entered: the assertion, then random.choice(the_starts).
EnterGenSentence ==
  /\ pc = "gen"
  /\ IF ~is_trained
     THEN /\ pc' = "failed"
          /\ raised' = "AssertionError"
          /\ UNCHANGED <<curr, sent, prevList, sent_tokens, source>>
     ELSE \E d \in Drawable(Choices(the_starts)) :
            /\ curr' = choice(the_starts, d)
            /\ sent' = Chars(choice(the_starts, d))
            /\ prevList' = <<choice(the_starts, d)>>
            /\ sent_tokens' = <<choice(the_starts, d)>>
            /\ pc' = "extend"
            /\ raised' = raised
            /\ Drawn(d)
  /\ UNCHANGED <<chains, settings, trained_tokens, call, sentences_desired,
                 paragraph_break_probability, which_sentence, the_text, yielded,
                 pending, yielded_sentences, flushed, depth>>
  /\ UNCHANGED <<storage, offered, reading>>

\* The space _gen_sentence puts before the token just appended to prevList.
SpaceBefore(token, window) ==
  IF /\ ~character_tokens
     /\ ~TokIn(token, punct_with_no_space_before)
     /\ (Len(window) < 2 \/ ~TokIn(window[Len(window) - 1], punct_with_no_space_after))
  THEN <<" ">>
  ELSE <<>>

\* One pass of `while curr not in sentence_ending_punct`.
Extend ==
  /\ pc = "extend"
  /\ Unfinished(curr)
  /\ Len(sent_tokens) < MaxSentLen
  /\ \E index \in Drawable(Draws) :
    /\ Drawn(index)
    /\ \E r \in {next(prevList, the_mapping, index)} :
       \E window \in {Trim(Append(r.prevList, r.retval), markov_length)} :
          /\ curr' = r.retval
          /\ prevList' = window
          /\ sent' = sent \o SpaceBefore(r.retval, window) \o Chars(r.retval)
          /\ sent_tokens' = Append(sent_tokens, r.retval)
          /\ the_mapping' = r.the_mapping
    /\ UNCHANGED <<the_starts, markov_length, character_tokens, settings,
                   trained_tokens, raised, call, producer, depth>>
  /\ UNCHANGED <<storage, offered, reading>>

\* The loop has ended: the one-character test, then a retry (a nested call,
\* which raises RecursionError at the recursion limit) or the return.
FinishSentence ==
  /\ pc = "extend"
  /\ ~Unfinished(curr)
  /\ IF Rejected(sent)
     THEN IF depth < MaxRetries
          THEN /\ depth' = depth + 1
               /\ pc' = "gen"
               /\ UNCHANGED <<sent, raised>>
          ELSE /\ pc' = "recursion_error"
               /\ raised' = "RecursionError"
               /\ UNCHANGED <<sent, depth>>
     ELSE /\ sent' = capitalize(sent)
          /\ pc' = "return"
          /\ UNCHANGED <<depth, raised>>
  /\ UNCHANGED <<chains, settings, trained_tokens, call, sentences_desired,
                 paragraph_break_probability, which_sentence, the_text, yielded,
                 pending, yielded_sentences, flushed, curr, prevList, sent_tokens, source>>
  /\ UNCHANGED <<storage, offered, reading>>

\* A nested call returns into the call that retried, which capitalizes the
\* sentence again and returns it.
ReturnRetry ==
  /\ pc = "return"
  /\ depth > 0
  /\ depth' = depth - 1
  /\ sent' = capitalize(sent)
  /\ UNCHANGED <<chains, settings, trained_tokens, raised, call, producer,
                 curr, prevList, sent_tokens, source>>
  /\ UNCHANGED <<storage, offered, reading>>

\* The outermost call returns: the_text = the_text + self._gen_sentence()
ReturnSentence ==
  /\ pc = "return"
  /\ depth = 0
  /\ the_text' = the_text \o sent
  /\ pending' = pending + 1
  /\ pc' = "coin"
  /\ UNCHANGED <<chains, settings, trained_tokens, raised, call, sentences_desired,
                 paragraph_break_probability, which_sentence, yielded,
                 yielded_sentences, flushed, sentence, source>>
  /\ UNCHANGED <<storage, offered, reading>>

\* Breaks without the test for the last sentence.
Breaks_coin_only(index, p, i, n) == FGeq(p, index)

\* random.random() <= paragraph_break_probability or the last sentence
Breaks(index, p, i, n) == FGeq(p, index) \/ i = n - 1

\* Coin applying the list the generator was constructed with.
Coin_default_list ==
  /\ pc = "coin"
  /\ \E index \in Drawable(Draws) :
    /\ Drawn(index)
    /\ IF Breaks(index, paragraph_break_probability, which_sentence, sentences_desired)
       THEN /\ yielded' = Append(yielded,
                            Strip(multi_replace(the_text, DefaultSubstitutions), Whitespace)
                              \o <<"\n">>)
            /\ yielded_sentences' = Append(yielded_sentences, pending)
            /\ flushed' = Append(flushed, [text |-> the_text,
                                            substitutions |-> final_substitutions])
            /\ the_text' = <<>>
            /\ pending' = 0
       ELSE UNCHANGED <<yielded, yielded_sentences, flushed, the_text, pending>>
    /\ which_sentence' = which_sentence + 1
    /\ pc' = "loop"
    /\ UNCHANGED <<chains, settings, trained_tokens, raised, call, sentences_desired,
                   paragraph_break_probability, sentence>>
  /\ UNCHANGED <<storage, offered, reading>>

\* The test after a sentence: yield the paragraph or go on.
Coin ==
  /\ pc = "coin"
  /\ \E index \in Drawable(Draws) :
    /\ Drawn(index)
    /\ IF Breaks(index, paragraph_break_probability, which_sentence, sentences_desired)
       THEN /\ yielded' = Append(yielded,
                            Strip(multi_replace(the_text, final_substitutions), Whitespace)
                              \o <<"\n">>)
            /\ yielded_sentences' = Append(yielded_sentences, pending)
            /\ flushed' = Append(flushed, [text |-> the_text,
                                            substitutions |-> final_substitutions])
            /\ the_text' = <<>>
            /\ pending' = 0
       ELSE UNCHANGED <<yielded, yielded_sentences, flushed, the_text, pending>>
    /\ which_sentence' = which_sentence + 1
    /\ pc' = "loop"
    /\ UNCHANGED <<chains, settings, trained_tokens, raised, call, sentences_desired,
                   paragraph_break_probability, sentence>>
  /\ UNCHANGED <<storage, offered, reading>>

\* `raise StopIteration` after the loop: the end of the sequence, or, where
\* PEP 479 is in force, a RuntimeError.
ProduceStop ==
  /\ pc = "loop"
  /\ which_sentence >= sentences_desired
  /\ \E outcome \in {"stopped", "runtime_error"} :
    /\ pc' = outcome
    /\ raised' = IF outcome = "stopped" THEN "none" ELSE "RuntimeError"
    /\ UNCHANGED <<chains, settings, trained_tokens, call, sentences_desired,
                   paragraph_break_probability, which_sentence, the_text, yielded,
                   pending, yielded_sentences, flushed, sentence, source>>
  /\ UNCHANGED <<storage, offered, reading>>

Next ==
  \/ Train
  \/ SampleNext
  \/ SetAllowSingle
  \/ ProduceStart
  \/ BeginSentence
  \/ EnterGenSentence
  \/ Extend
  \/ FinishSentence
  \/ ReturnRetry
  \/ ReturnSentence
  \/ Coin
  \/ ProduceStop

Spec == Init /\ [][Next]_vars

\* --------------------------------------------------- two runs, one source
\* A trained generator, its random source recorded.
InitReplay ==
  \E token_list \in ReplayCorpora, K \in Orders :
    LET c == build_mapping(token_list, K, FALSE)
    IN /\ the_starts = c.the_starts
       /\ the_mapping = c.the_mapping
       /\ markov_length = c.markov_length
       /\ character_tokens = c.character_tokens
       /\ trained_tokens = token_list
       /\ allow_single_character_sentences = FALSE
       /\ final_substitutions = DefaultSubstitutions
       /\ raised = "none"
       /\ call = NoCall
       /\ pc = "idle"
       /\ sentences_desired = 0
       /\ paragraph_break_probability = FDiv(1, 4)
       /\ which_sentence = 0
       /\ the_text = <<>>
       /\ yielded = <<>>
       /\ curr = ""
       /\ sent = <<>>
       /\ prevList = <<>>
       /\ depth = 0
       /\ sent_tokens = <<>>
       /\ pending = 0
       /\ yielded_sentences = <<>>
       /\ flushed = <<>>
       /\ mode = "record"
       /\ tape = <<>>
       /\ tpos = 1
       /\ first_yielded = <<>>
       /\ chains_file = <<>>
       /\ interpreter = <<>>
       /\ offered = NoOffer
       /\ reading = NotReading

\* The recorded run has ended: _produce_text is called again on the same
\* generator with the same arguments, and draws the recorded values.
StartReplay ==
  /\ mode = "record"
  /\ pc \in {"stopped", "runtime_error"}
  /\ mode' = "replay"
  /\ first_yielded' = yielded
  /\ tpos' = 1
  /\ which_sentence' = 0
  /\ the_text' = <<>>
  /\ yielded' = <<>>
  /\ pending' = 0
  /\ yielded_sentences' = <<>>
  /\ flushed' = <<>>
  /\ pc' = "loop"
  /\ raised' = "none"
  /\ UNCHANGED <<chains, settings, trained_tokens, call, sentences_desired,
                 paragraph_break_probability, sentence, tape>>
  /\ UNCHANGED <<storage, offered, reading>>

NextReplay ==
  \/ ProduceStart
  \/ BeginSentence
  \/ EnterGenSentence
  \/ Extend
  \/ FinishSentence
  \/ ReturnRetry
  \/ ReturnSentence
  \/ Coin
  \/ ProduceStop
  \/ StartReplay

SpecReplay == InitReplay /\ [][NextReplay]_vars

\* ------------------------------------------- the substitutions at a yield
\* The texts the generator is trained on when the substitution list is set.
FlushCorpora == {Hyphened}

\* Lists handed to set_final_substitutions: the default one, the empty one,
\* and two lists of the same two pairs in either order.
HyphenSpace == << <<"-", " ">>, <<"-">> >>
HyphenToDash == << <<"-">>, <<EmDash>> >>
SubstitutionLists ==
  {DefaultSubstitutions, <<>>, <<HyphenSpace, HyphenToDash>>, <<HyphenToDash, HyphenSpace>>}

\* A generator trained in word mode.
InitFlush ==
  \E token_list \in FlushCorpora, K \in Orders :
    LET c == build_mapping(token_list, K, FALSE)
    IN /\ the_starts = c.the_starts
       /\ the_mapping = c.the_mapping
       /\ markov_length = c.markov_length
       /\ character_tokens = c.character_tokens
       /\ trained_tokens = token_list
       /\ allow_single_character_sentences = FALSE
       /\ final_substitutions = DefaultSubstitutions
       /\ raised = "none"
       /\ call = NoCall
       /\ pc = "idle"
       /\ sentences_desired = 0
       /\ paragraph_break_probability = FDiv(1, 4)
       /\ which_sentence = 0
       /\ the_text = <<>>
       /\ yielded = <<>>
       /\ curr = ""
       /\ sent = <<>>
       /\ prevList = <<>>
       /\ depth = 0
       /\ sent_tokens = <<>>
       /\ pending = 0
       /\ yielded_sentences = <<>>
       /\ flushed = <<>>
       /\ mode = "free"
       /\ tape = <<>>
       /\ tpos = 1
       /\ first_yielded = <<>>
       /\ chains_file = <<>>
       /\ interpreter = <<>>
       /\ offered = NoOffer
       /\ reading = NotReading

\* A Python value handed in as a substitution: its type and its items.
AsList(items) == [type |-> "list", items |-> items]

\* What set_final_substitutions is handed: the lists of SubstitutionLists, a
\* list whose second entry has one item only, and a list holding a string of
\* two characters.
SubstitutionArguments ==
  {[i \in DOMAIN l |-> AsList(l[i])] : l \in SubstitutionLists}
    \cup {<<AsList(HyphenSpace), AsList(<< <<"-">> >>)>>,
          <<[type |-> "str", items |-> << <<"-">>, <<" ">> >>]>>}

\* What add_final_substitution is handed: a pair as a list and as a tuple, a
\* list of three items, and a string of two characters.
SingleArguments ==
  {AsList(HyphenSpace),
   [type |-> "tuple", items |-> HyphenToDash],
   AsList(<< <<"-">>, <<"-">>, <<"-">> >>),
   [type |-> "str", items |-> << <<"-">>, <<" ">> >>]}

\* The positions add_final_substitution is handed.
Positions == {-1, 0, 1}

\* The assertions with the one on the length left out.
IsPair_any_length(sublist) == sublist.type \in {"list", "tuple"}

\* The two assertions made on a substitution.
IsPair(sublist) == sublist.type \in {"list", "tuple"} /\ Len(sublist.items) = 2

\* list.insert(position, x) for a position that is not negative.
Insert(lst, position, x) ==
  LET at == IF position > Len(lst) THEN Len(lst) ELSE position
  IN SubSeq(lst, 1, at) \o <<x>> \o SubSeq(lst, at + 1, Len(lst))

\* The code that owns the generator can call it: before _produce_text is
\* started, or while it is suspended at a yield (the paragraph has been
\* handed over and the_text is not yet reset).
OwnerRuns ==
  /\ call = NoCall
  /\ pc = "idle" \/ (pc = "loop" /\ pending = 0 /\ which_sentence < sentences_desired)

\* set_final_substitutions(substitutions): every entry is asserted to be a
\* list or tuple of two items, then the list is replaced.
SetFinalSubstitutions ==
  /\ OwnerRuns
  /\ \E substitutions \in SubstitutionArguments :
    /\ offered' = [op |-> "set_final_substitutions", arg |-> substitutions,
                   position |-> 0, before |-> final_substitutions]
    /\ IF \A i \in DOMAIN substitutions : IsPair(substitutions[i])
       THEN /\ final_substitutions' = [i \in DOMAIN substitutions |-> substitutions[i].items]
            /\ raised' = "none"
       ELSE /\ raised' = "AssertionError"
            /\ UNCHANGED final_substitutions
    /\ UNCHANGED <<chains, allow_single_character_sentences, trained_tokens,
                   call, producer, sentence, source>>
  /\ UNCHANGED <<storage, reading>>

\* add_final_substitution(substitution, position): the two assertions, then
\* the substitution is inserted, at the end for position -1.
AddFinalSubstitution ==
  /\ OwnerRuns
  /\ Len(final_substitutions) < MaxSubstitutions
  /\ \E substitution \in SingleArguments, position \in Positions :
    /\ offered' = [op |-> "add_final_substitution", arg |-> <<substitution>>,
                   position |-> position, before |-> final_substitutions]
    /\ IF IsPair(substitution)
       THEN /\ final_substitutions' =
                 Insert(final_substitutions,
                        IF position = -1 THEN Len(final_substitutions) ELSE position,
                        substitution.items)
            /\ raised' = "none"
       ELSE /\ raised' = "AssertionError"
            /\ UNCHANGED final_substitutions
    /\ UNCHANGED <<chains, allow_single_character_sentences, trained_tokens,
                   call, producer, sentence, source>>
  /\ UNCHANGED <<storage, reading>>

NextFlush ==
  \/ SetFinalSubstitutions
  \/ AddFinalSubstitution
  \/ ProduceStart
  \/ BeginSentence
  \/ EnterGenSentence
  \/ Extend
  \/ FinishSentence
  \/ ReturnRetry
  \/ ReturnSentence
  \/ Coin
  \/ ProduceStop

\* Generation with the substitution list changed between the paragraphs.
SpecFlush == InitFlush /\ [][NextFlush]_vars

\* ------------------------------------------------- the stored chains
\* MarkovChainTextModel.store_chains(filename): the dictionary that is pickled.
StoreChains ==
  /\ call = NoCall
  /\ pc = "idle"
  /\ chains_file' = <<[the_starts |-> the_starts,
                       markov_length |-> markov_length,
                       the_mapping |-> the_mapping,
                       character_tokens |-> character_tokens]>>
  /\ raised' = "none"
  /\ UNCHANGED <<chains, settings, trained_tokens, call, producer, sentence,
                 source, interpreter, offered, reading>>

\* The keys chain-interpreter's MarkovChainTextModel.__init__ reads.
InterpreterKeys == {"markov_length", "starts", "the_mapping", "character_tokens"}

\* chain-interpreter: TextGenerator(chainsfile), that is
\* MarkovChainTextModel.__init__(filename) on the unpickled dictionary; a key
\* that is not in the dictionary raises KeyError and no object is made.
InterpreterLoad ==
  /\ call = NoCall
  /\ pc = "idle"
  /\ chains_file # <<>>
  /\ LET chains_dictionary == chains_file[1]
     IN IF InterpreterKeys \ DOMAIN chains_dictionary # {}
        THEN /\ raised' = "KeyError"
             /\ UNCHANGED interpreter
        ELSE IF chains_dictionary.character_tokens
        THEN /\ raised' = "AssertionError"
             /\ UNCHANGED interpreter
        ELSE /\ raised' = "none"
             /\ interpreter' = <<[markov_length |-> chains_dictionary.markov_length,
                                  the_starts |-> chains_dictionary.starts,
                                  the_mapping |-> chains_dictionary.the_mapping,
                                  character_tokens |-> chains_dictionary.character_tokens]>>
  /\ UNCHANGED <<chains, settings, trained_tokens, call, producer, sentence,
                 source, chains_file, offered, reading>>

\* The texts the stored chains are trained on.
StoreCorpora == {Example, Weighted, Dashed}

\* Training on one of the named texts, in word mode or (on single-character
\* tokens) in character mode.
TrainNamed ==
  /\ call = NoCall
  /\ pc = "idle"
  /\ \E token_list \in StoreCorpora, K \in Orders, cm \in BOOLEAN :
    /\ cm => \A i \in DOMAIN token_list : token_list[i] \in CharTokens
    /\ BuildMapping(token_list, K, cm)
    /\ UNCHANGED <<call, settings, producer, sentence, source>>
  /\ UNCHANGED <<storage, offered, reading>>

NextStore ==
  \/ TrainNamed
  \/ StoreChains
  \/ InterpreterLoad

\* Training, storing the chains and loading them in chain-interpreter.
SpecStore == Init /\ [][NextStore]_vars

\* ----------------------------------------- chain-interpreter's sentences
\* A text that ends with the only occurrence of "cat" followed by "-": the
\* context ("cat", "-") is not registered, the context ("-") is.
Tailed == <<"I", "-", "I", ".", "cat", "-">>

\* A text of two tokens: a start and no context.
Stub == <<"cat", ".">>

PairCorpora == {Tailed, Stub, Example, Weighted, Rounded, Dashed}
PairOrders == 1..(MaxOrder + 1)

\* chain-interpreter's next that looks up the whole window only.
interpreter_next_whole_window(history, mapping, index) ==
  IF to_hash_key(history) \in DOMAIN mapping
  THEN PickFrom(mapping[to_hash_key(history)], FZero, index)
  ELSE "."

\* chain-interpreter's TextGenerator.next: `prevList = [p for p in prevList]`,
\* so the caller's list is left as it is and only the value is returned.
interpreter_next(history, mapping, index) ==
  LET sh == Shorten(history, mapping)
  IN IF ~sh.found
     THEN "."
     ELSE PickFrom(mapping[to_hash_key(sh.lst)], FZero, index)

\* The space chain-interpreter's _gen_sentence puts before the token just
\* appended to prevList; character_tokens is not looked at.
interpreter_SpaceBefore(token, window) ==
  IF /\ ~TokIn(token, punct_with_no_space_before)
     /\ (Len(window) < 2 \/ ~TokIn(window[Len(window) - 1], punct_with_no_space_after))
  THEN <<" ">>
  ELSE <<>>

\* chain-interpreter's one-character test; there is no flag to switch it off.
interpreter_Rejected(s) ==
  /\ Len(Residual(s)) = 1
  /\ Upper(Residual(s)[1]) # "I"

\* What an action of chain-interpreter leaves alone: the other generator, and
\* the position of its run in the shared random source.
InterpreterFrame ==
  UNCHANGED <<chains, settings, trained_tokens, raised, call, producer, sentence,
              mode, tpos, first_yielded, storage, offered>>

\* A model built by training, handed to both generators; the random source is
\* shared: chain-interpreter draws a value, and text_generator's run draws
\* the same values in the same order.
InitPair ==
  \E token_list \in PairCorpora, K \in PairOrders :
    LET c == build_mapping(token_list, K, FALSE)
    IN /\ the_starts = c.the_starts
       /\ the_mapping = c.the_mapping
       /\ markov_length = c.markov_length
       /\ character_tokens = c.character_tokens
       /\ trained_tokens = token_list
       /\ allow_single_character_sentences = FALSE
       /\ final_substitutions = DefaultSubstitutions
       /\ raised = "none"
       /\ call = NoCall
       /\ pc = "idle"
       /\ sentences_desired = 0
       /\ paragraph_break_probability = FDiv(1, 4)
       /\ which_sentence = 0
       /\ the_text = <<>>
       /\ yielded = <<>>
       /\ curr = ""
       /\ sent = <<>>
       /\ prevList = <<>>
       /\ depth = 0
       /\ sent_tokens = <<>>
       /\ pending = 0
       /\ yielded_sentences = <<>>
       /\ flushed = <<>>
       /\ mode = "replay"
       /\ tape = <<>>
       /\ tpos = 1
       /\ first_yielded = <<>>
       /\ chains_file = <<>>
       /\ interpreter = <<c>>
       /\ offered = NoOffer
       /\ reading = NotReading

\* chain-interpreter's _gen_sentence is entered, by its caller or by the
\* retry: random.choice(self.chains.the_starts), with no assertion before it.
InterpreterGenSentence ==
  /\ interpreter # <<>>
  /\ reading.pc \in {"idle", "gen"}
  /\ IF interpreter[1].the_starts = <<>>
     THEN /\ reading' = [reading EXCEPT !.pc = "failed"]
          /\ UNCHANGED tape
     ELSE \E d \in Choices(interpreter[1].the_starts) :
            LET start == choice(interpreter[1].the_starts, d)
            IN /\ reading' = [reading EXCEPT
                                !.pc = "extend",
                                !.curr = start,
                                !.sent = Chars(start),
                                !.prevList = <<start>>,
                                !.sent_tokens = <<start>>,
                                !.trace = Append(reading.trace,
                                                 [sent |-> Chars(start),
                                                  sent_tokens |-> <<start>>])]
               /\ tape' = Append(tape, d)
  /\ InterpreterFrame

\* One pass of chain-interpreter's `while curr not in sentence_ending_punct`.
InterpreterExtend ==
  /\ reading.pc = "extend"
  /\ Unfinished(reading.curr)
  /\ Len(reading.sent_tokens) < MaxSentLen
  /\ \E index \in Draws :
       LET token == interpreter_next(reading.prevList, interpreter[1].the_mapping, index)
           window == Trim(Append(reading.prevList, token), interpreter[1].markov_length)
           longer == reading.sent \o interpreter_SpaceBefore(token, window) \o Chars(token)
       IN /\ reading' = [reading EXCEPT
                           !.curr = token,
                           !.prevList = window,
                           !.sent = longer,
                           !.sent_tokens = Append(reading.sent_tokens, token),
                           !.trace = Append(reading.trace,
                                            [sent |-> longer,
                                             sent_tokens |-> Append(reading.sent_tokens, token)])]
          /\ tape' = Append(tape, index)
  /\ InterpreterFrame

\* chain-interpreter's loop has ended: the one-character test, then a retry
\* (RecursionError at the recursion limit) or the return of the capitalized
\* sentence.
InterpreterFinish ==
  /\ reading.pc = "extend"
  /\ ~Unfinished(reading.curr)
  /\ IF interpreter_Rejected(reading.sent)
     THEN IF reading.depth < MaxRetries
          THEN reading' = [reading EXCEPT !.pc = "gen", !.depth = reading.depth + 1]
          ELSE reading' = [reading EXCEPT !.pc = "recursion_error"]
     ELSE reading' = [reading EXCEPT !.pc = "return", !.sent = capitalize(reading.sent)]
  /\ UNCHANGED tape
  /\ InterpreterFrame

\* A call of chain-interpreter's _gen_sentence returns: into the call that
\* retried, which capitalizes the sentence again, or to its caller.
InterpreterReturn ==
  /\ reading.pc = "return"
  /\ IF reading.depth > 0
     THEN reading' = [reading EXCEPT !.depth = reading.depth - 1,
                                     !.sent = capitalize(reading.sent)]
     ELSE reading' = [reading EXCEPT !.pc = "done"]
  /\ UNCHANGED tape
  /\ InterpreterFrame

NextPair ==
  \/ InterpreterGenSentence
  \/ InterpreterExtend
  \/ InterpreterFinish
  \/ InterpreterReturn
  \/ ProduceStart
  \/ BeginSentence
  \/ EnterGenSentence
  \/ Extend
  \/ FinishSentence
  \/ ReturnRetry
  \/ ReturnSentence

SpecPair == InitPair /\ [][NextPair]_vars

\* ------------------------------------------------ generation that goes on
\* A text whose only sentence is a hyphen and a full stop.
Dashes == <<"-", ".", "-", ".">>

\* Texts whose sentences are short: no token of theirs can follow itself.
LiveCorpora == {Dashed, Dashes, Example, Hyphened}

\* A generator trained on one of the texts, single-character sentences
\* disallowed (the default).
InitLive ==
  \E token_list \in LiveCorpora, K \in Orders :
    LET c == build_mapping(token_list, K, FALSE)
    IN /\ the_starts = c.the_starts
       /\ the_mapping = c.the_mapping
       /\ markov_length = c.markov_length
       /\ character_tokens = c.character_tokens
       /\ trained_tokens = token_list
       /\ allow_single_character_sentences = FALSE
       /\ final_substitutions = DefaultSubstitutions
       /\ raised = "none"
       /\ call = NoCall
       /\ pc = "idle"
       /\ sentences_desired = 0
       /\ paragraph_break_probability = FDiv(1, 4)
       /\ which_sentence = 0
       /\ the_text = <<>>
       /\ yielded = <<>>
       /\ curr = ""
       /\ sent = <<>>
       /\ prevList = <<>>
       /\ depth = 0
       /\ sent_tokens = <<>>
       /\ pending = 0
       /\ yielded_sentences = <<>>
       /\ flushed = <<>>
       /\ mode = "free"
       /\ tape = <<>>
       /\ tpos = 1
       /\ first_yielded = <<>>
       /\ chains_file = <<>>
       /\ interpreter = <<>>
       /\ offered = NoOffer
       /\ reading = NotReading

NextLive ==
  \/ ProduceStart
  \/ BeginSentence
  \/ EnterGenSentence
  \/ Extend
  \/ FinishSentence
  \/ ReturnRetry
  \/ ReturnSentence
  \/ Coin
  \/ ProduceStop

\* The tokens the sentences of the texts begin with.
LiveStarts == {"-", "cat", "The"}

\* The steps of a call of _gen_sentence.
GenSentence ==
  EnterGenSentence \/ Extend \/ FinishSentence \/ ReturnRetry \/ ReturnSentence

\* A call of _gen_sentence runs on while it can (none of its steps waits for
\* anything but the random source), and random.choice is fair: a start that
\* can be drawn again and again is drawn in the end. (No token of these texts
\* follows itself, so the loop ends whatever random.random() gives.)
FairChoice ==
  /\ WF_vars(GenSentence)
  /\ \A token \in LiveStarts : SF_vars(EnterGenSentence /\ curr' = token)

SpecLive == InitLive /\ [][NextLive]_vars /\ FairChoice

\* ---------------------------------------------------------------- claims
Ended == pc \in {"stopped", "runtime_error"}

\* The weights of a distribution added up in its order, as floats are added.
RECURSIVE SumWeights(_)
SumWeights(items) ==
  IF items = <<>> THEN FZero
  ELSE FAdd(SumWeights(SubSeq(items, 1, Len(items) - 1)), items[Len(items)].v)

RECURSIVE SumSeq(_)
SumSeq(q) == IF q = <<>> THEN 0 ELSE Head(q) + SumSeq(Tail(q))

Keys(items) == {items[j].k : j \in DOMAIN items}

\* C1, as stated: after training, the weights of every context of the table
\* sum to exactly 1 and each weight is strictly positive.
C1_WeightsSumToOne ==
  \A first \in DOMAIN the_mapping :
    LET items == the_mapping[first]
    IN /\ items # <<>>
       /\ SumWeights(items) = FOne
       /\ \A j \in DOMAIN items : items[j].v # FZero

\* C1, amended: after training, the weights of every context of the table
\* sum to 1 within 2^-30 (less than 1e-9) and each weight is strictly
\* positive.
C1_WeightsSumNearOne ==
  \A first \in DOMAIN the_mapping :
    LET items == the_mapping[first]
        total == SumWeights(items)
    IN /\ items # <<>>
       /\ FGeq(total, <<Base - 1, Base - 1, 0, 0>>)
       /\ FGeq(<<Base, 1, 0, 0>>, total)
       /\ \A j \in DOMAIN items : items[j].v # FZero /\ FGeq(items[j].v, FZero)

\* A trained table with a context whose four weights, 4/7 and three times
\* 1/7, do not sum to 1.
C1_Witness ==
  \E first \in DOMAIN the_mapping :
    /\ Len(the_mapping[first]) = 4
    /\ the_mapping[first][1].v = FDiv(4, 7)
    /\ SumWeights(the_mapping[first]) # FOne

\* C2: training on The cat sat . with order 1 puts The in the starts, maps
\* the context (The,) to cat with probability 1 and makes next((The,)) return
\* cat for every draw; in general the transition from the first token to the
\* second is registered under the first token's one-token context.
C2_FirstTransitionRegistered ==
  (trained_tokens = <<"The", "cat", "sat", ".">> /\ markov_length = 1) =>
    /\ "The" \in Range(the_starts)
    /\ <<trained_tokens[1]>> \in DOMAIN the_mapping
    /\ the_mapping[<<"The">>] = <<[k |-> trained_tokens[2], v |-> FOne]>>
    /\ (call.op = "next" /\ call.arg = <<"The">>) => call.retval = "cat"

\* The tokens next() can return from the table.
Sampled == UNION {Keys(the_mapping[first]) : first \in DOMAIN the_mapping}

\* Every history of the training loop, with its suffixes down to length 1.
TrainingContexts ==
  UNION {{SubSeq(h, j, Len(h)) : j \in 1..Len(h)} :
           h \in {HistoryAt(trained_tokens, i, markov_length) :
                    i \in 1..(Len(trained_tokens) - 2)}}

\* C3: after training on two tokens or more, every context of the training
\* and each of its suffixes is a key, and so is the one-token context of every
\* start token and of every token that can be sampled and does not end a
\* sentence.
C3_WindowTokensAreKeys ==
  Len(trained_tokens) >= 2 =>
    /\ TrainingContexts \subseteq DOMAIN the_mapping
    /\ \A token \in Range(the_starts) \cup {t \in Sampled : Unfinished(t)} :
         <<token>> \in DOMAIN the_mapping

\* C4: next() on a trained model and a non-empty history raises nothing and
\* returns a token of the matched context's distribution or the sentinel ".".
C4_NextReturnsToken ==
  call.op = "next" =>
    /\ raised = "none"
    /\ call.retval # ""
    /\ \/ /\ call.prevList \in DOMAIN the_mapping
          /\ call.retval \in Keys(the_mapping[call.prevList])
       \/ /\ call.retval = "."
          /\ \A j \in 1..Len(call.arg) :
               SubSeq(call.arg, j, Len(call.arg)) \notin DOMAIN the_mapping

C6_ZeroProbabilityOneParagraph ==
  (Ended /\ sentences_desired > 0 /\ paragraph_break_probability = FZero) =>
    /\ Len(yielded) = 1
    /\ yielded_sentences = <<sentences_desired>>

\* C7: with single-character sentences disallowed, a sentence _gen_sentence
\* returns has no one-character residual other than I or i, and nothing of a
\* rejected sentence is in the text it is added to.
C7_NoSingleCharacterSentence ==
  /\ (pc \in {"return", "coin"} /\ ~allow_single_character_sentences) =>
       ~(Len(Residual(sent)) = 1 /\ Residual(sent)[1] \notin {"I", "i"})
  /\ (pc = "coin" /\ pending = 1) => the_text = sent

\* A sentence is returned by a call that was made after a rejection.
C7_Witness ==
  /\ pc = "return"
  /\ depth > 0
  /\ ~allow_single_character_sentences

\* The token is one of the sentence-ending punctuation marks.
SentenceEnding(token) == token \in Range(sentence_ending_punct)

\* C8: a sentence is finished exactly when the token appended ends a
\* sentence: a returned sentence has a sentence-ending token as its last
\* token, and no token is ever appended after one.
C8_EndsAtFirstSentenceEnd ==
  /\ \A j \in 1..(Len(sent_tokens) - 1) : ~SentenceEnding(sent_tokens[j])
  /\ pc \in {"return", "coin"} =>
       /\ sent_tokens # <<>>
       /\ SentenceEnding(sent_tokens[Len(sent_tokens)])
  /\ (pc = "extend" /\ sent_tokens # <<>>
        /\ SentenceEnding(sent_tokens[Len(sent_tokens)])) => ~ENABLED Extend

\* C10: neither a call of next() nor any step of sentence or paragraph
\* generation changes the starts, the table, the order or the
\* character-mode flag.
C10_GenerationKeepsModel ==
  [][(pc' # "idle" \/ call' # call) => UNCHANGED chains]_vars

\* Two paragraphs have been produced from a trained model, the second
\* sentence ended by the "." next() returns when no context is registered.
C10_Witness ==
  /\ pc = "stopped"
  /\ Len(yielded) = 2
  /\ is_trained
  /\ <<curr>> \notin DOMAIN the_mapping
  /\ Len(sent_tokens) = 2
  /\ <<sent_tokens[1]>> \notin DOMAIN the_mapping

\* C9: on the same trained model, the same substitution list and the same
\* sequence of random values, a second run of _produce_text yields the
\* paragraphs of the first.
C9_SameDrawsSameParagraphs ==
  mode = "replay" =>
    /\ Len(yielded) <= Len(first_yielded)
    /\ \A j \in DOMAIN yielded : yielded[j] = first_yielded[j]
    /\ pc \in {"stopped", "runtime_error"} => yielded = first_yielded

\* The repeated run has ended after two paragraphs; a one-character sentence
\* was rejected on the way, so more than three values a sentence were drawn.
C9_Witness ==
  /\ mode = "replay"
  /\ pc = "stopped"
  /\ trained_tokens = Dashed
  /\ Len(yielded) = 2
  /\ Len(tape) > 6
  /\ tpos = Len(tape) + 1

\* A step of the training operation: the object is idle before and after it,
\* no call is recorded and no setting is changed.
TrainingStep ==
  /\ pc = "idle" /\ pc' = "idle"
  /\ call = NoCall /\ call' = NoCall
  /\ UNCHANGED settings

\* C11: a training call on an empty token list fails with an error and leaves
\* the start list, the mapping, the order and the character-mode flag as they
\* were, a model trained earlier included: a training step either raises and
\* keeps the chains, or raises nothing and has installed chains built from a
\* non-empty token list.
C11_EmptyTrainingFailsAndKeepsModel ==
  [][TrainingStep =>
       \/ /\ raised' = "IndexError"
          /\ UNCHANGED chains
       \/ /\ raised' = "none"
          /\ trained_tokens' # <<>>
          /\ the_starts' # <<>>
          /\ the_starts'[1] = trained_tokens'[1]]_vars

\* C11 witness: an empty training has failed on a model that was trained
\* before, and that model is still there.
C11_Witness ==
  /\ raised = "IndexError"
  /\ Len(trained_tokens) = MaxTokens
  /\ the_mapping # EmptyMapping
  /\ the_starts # <<>>

\* The chains a training would hold if the counts and starts of token list B
\* were added to those of token list A (the loop of B run on what A left).
CombinedChains(A, B, K) ==
  LET first == BuildLoop(A, K, 1, [starts |-> <<A[1]>>, temp |-> EmptyMapping])
      both == BuildLoop(B, K, 1, [starts |-> Append(first.starts, B[1]),
                                  temp |-> first.temp])
  IN [the_starts |-> both.starts, the_mapping |-> Normalize(both.temp)]

\* C12: training is cumulative: when a model that holds the chains of token
\* list A is trained on token list B with the same order, it afterwards holds
\* the start tokens of both and the weights of the combined counts of both.
C12_TrainingIsCumulative ==
  [][(/\ TrainingStep
      /\ trained_tokens # <<>>
      /\ chains = <<build_mapping(trained_tokens, markov_length, character_tokens).the_starts,
                    build_mapping(trained_tokens, markov_length, character_tokens).the_mapping,
                    markov_length, character_tokens>>
      /\ raised' = "none"
      /\ markov_length' = markov_length)
     => LET c == CombinedChains(trained_tokens, trained_tokens', markov_length)
        IN /\ Range(the_starts') = Range(c.the_starts)
           /\ DOMAIN the_mapping' = DOMAIN c.the_mapping
           /\ \A first \in DOMAIN c.the_mapping :
                Range(the_mapping'[first]) = Range(c.the_mapping[first])]_vars

\* The generator is untrained: no start list, no mapping, or order 0.
Untrained == the_starts = <<>> \/ the_mapping = EmptyMapping \/ markov_length = 0

\* C13: a sentence requested from an untrained generator fails with an error
\* and gives no text: no sentence is begun, nothing is added to the paragraph,
\* nothing is yielded, the request ends in the assertion's error, and the
\* producer ends normally only when no sentence was asked for.
C13_UntrainedGivesNoSentence ==
  Untrained =>
    /\ pc \in {"idle", "loop", "gen", "failed", "stopped", "runtime_error"}
    /\ sent = <<>> /\ sent_tokens = <<>>
    /\ the_text = <<>> /\ yielded = <<>>
    /\ (pc = "failed" => raised = "AssertionError")
    /\ (pc \in {"stopped", "runtime_error"} => sentences_desired = 0)

\* C13 witness: a sentence was requested from a generator that has a start
\* list but no mapping, and the request failed.
C13_Witness ==
  /\ pc = "failed"
  /\ raised = "AssertionError"
  /\ the_starts # <<>>
  /\ the_mapping = EmptyMapping
  /\ sentences_desired > 0
  /\ yielded = <<>>

\* C14: every yielded paragraph is the text accumulated up to its yield with
\* the final substitutions applied, pair by pair in list order, then stripped
\* and ended with a newline; the list applied is the one in force at that
\* yield, and no paragraph is yielded without the pass.
C14_SubstitutionsAppliedAtYield ==
  /\ Len(yielded) = Len(flushed)
  /\ \A j \in DOMAIN yielded :
       yielded[j] =
         Strip(multi_replace(flushed[j].text, flushed[j].substitutions), Whitespace)
           \o <<"\n">>

\* C14 witness: two paragraphs were yielded, the list was replaced between
\* them by one with the same pairs in another order, and the second paragraph
\* is not what the earlier list makes of its text, nor the text itself.
C14_Witness ==
  /\ Len(yielded) = 2
  /\ Len(flushed) = 2
  /\ flushed[1].substitutions = <<HyphenSpace, HyphenToDash>>
  /\ flushed[2].substitutions = <<HyphenToDash, HyphenSpace>>
  /\ yielded[2] # Strip(multi_replace(flushed[2].text, flushed[1].substitutions), Whitespace)
                    \o <<"\n">>
  /\ yielded[2] # Strip(flushed[2].text, Whitespace) \o <<"\n">>

\* C15: a word-mode snapshot written by store_chains is loaded by
\* chain-interpreter's MarkovChainTextModel without an error and with the same
\* order, start list and mapping: a step that loads such a snapshot raises
\* nothing and leaves the interpreter holding the stored values.
C15_InterpreterLoadsSnapshot ==
  [][(/\ chains_file # <<>>
      /\ UNCHANGED chains_file
      /\ ~chains_file[1].character_tokens
      /\ raised' = "KeyError" \/ interpreter' # interpreter)
     => /\ raised' = "none"
        /\ interpreter' # <<>>
        /\ interpreter'[1].markov_length = chains_file[1].markov_length
        /\ interpreter'[1].the_starts = chains_file[1].the_starts
        /\ interpreter'[1].the_mapping = chains_file[1].the_mapping]_vars

\* The history of position i (0-based) as the claim gives it: the trailing
\* slice of the tokens ending at i, of length min(i + 1, K).
TrailingHistory(t, i, K) ==
  LET len == IF i + 1 < K THEN i + 1 ELSE K
  IN SubSeq(t, i + 2 - len, i + 1)

Suffixes(h) == {SubSeq(h, j, Len(h)) : j \in 1..Len(h)}

\* The positions 1..n-2 (0-based) at which context c is a suffix of the history.
PositionsOf(t, K, c) ==
  {i \in 1..(Len(t) - 2) : c \in Suffixes(TrailingHistory(t, i, K))}

\* C16: after training on t with order K the contexts of the table are the
\* suffixes of the trailing histories (of length min(i+1, K)) of the positions
\* 1..n-2 and no others, the next tokens of a context are those that follow it
\* at these positions and no others, and the weight of next token f under
\* context c is the number of positions where c is followed by f divided by the
\* number of positions of c.
C16_WeightsAreRelativeFrequencies ==
  trained_tokens # <<>> =>
    LET t == trained_tokens
        K == markov_length
    IN /\ DOMAIN the_mapping =
            UNION {Suffixes(TrailingHistory(t, i, K)) : i \in 1..(Len(t) - 2)}
       /\ \A c \in DOMAIN the_mapping :
            /\ Keys(the_mapping[c]) = {t[i + 2] : i \in PositionsOf(t, K, c)}
            /\ \A j \in DOMAIN the_mapping[c] :
                 the_mapping[c][j].v =
                   FDiv(Cardinality({i \in PositionsOf(t, K, c) :
                                       t[i + 2] = the_mapping[c][j].k}),
                        Cardinality(PositionsOf(t, K, c)))

\* C17: every context key of the trained table has at least 1 and at most K
\* tokens, K being the order the training was given.
C17_ContextLengthWithinOrder ==
  \A c \in DOMAIN the_mapping : Len(c) >= 1 /\ Len(c) <= markov_length

\* The non-empty suffixes of the history handed to next() that are contexts
\* of the table.
RegisteredSuffixes == {c \in Suffixes(call.arg) : c \in DOMAIN the_mapping}

\* C18: next() uses the longest suffix of the history it is given that is a
\* context of the table (the list it was handed is shortened to it, oldest
\* token first) and its result comes from the draw on that context's
\* distribution; it takes the sentinel path, returning "." with the list
\* emptied, exactly when no non-empty suffix is a context.
C18_LongestRegisteredSuffix ==
  call.op = "next" =>
    IF RegisteredSuffixes = {}
    THEN call.retval = "." /\ call.prevList = <<>>
    ELSE LET c == CHOOSE x \in RegisteredSuffixes :
                    \A y \in RegisteredSuffixes : Len(y) <= Len(x)
         IN /\ call.prevList = c
            /\ \/ call.retval \in Keys(the_mapping[c])
               \/ /\ call.retval = ""
                  /\ ~FGeq(SumWeights(the_mapping[c]), call.index)

\* C18 witness: a history of two tokens that is no context was shortened by
\* its oldest token to a context, whose distribution differs from that of
\* no shorter suffix (there is none), and a token of it was returned.
C18_Witness ==
  /\ call.op = "next"
  /\ Len(call.arg) = 2
  /\ call.arg \notin DOMAIN the_mapping
  /\ call.prevList = Tail(call.arg)
  /\ call.prevList \in DOMAIN the_mapping
  /\ call.retval \in Keys(the_mapping[call.prevList])

\* The running sum after the first j tokens of a distribution.
Cumulative(items, j) == SumWeights(SubSeq(items, 1, j))

\* C19: for a matched context and the draw index, next() returns the first
\* token, in the order of the context's distribution, whose cumulative weight
\* is at least index: no token before it reaches index, and when some token
\* reaches index one is returned.
C19_FirstTokenReachingDraw ==
  (call.op = "next" /\ call.prevList \in DOMAIN the_mapping) =>
    LET items == the_mapping[call.prevList]
        reaching == {j \in DOMAIN items : FGeq(Cumulative(items, j), call.index)}
    IN IF reaching = {}
       THEN call.retval \notin Keys(items)
       ELSE \E j \in reaching :
              /\ items[j].k = call.retval
              /\ \A i \in reaching : j <= i

\* C19 witness: the first token of a distribution of several tokens did not
\* reach the draw and the second, which did, was returned.
C19_Witness ==
  /\ call.op = "next"
  /\ call.prevList \in DOMAIN the_mapping
  /\ Len(the_mapping[call.prevList]) >= 2
  /\ ~FGeq(Cumulative(the_mapping[call.prevList], 1), call.index)
  /\ FGeq(Cumulative(the_mapping[call.prevList], 2), call.index)
  /\ call.retval = the_mapping[call.prevList][2].k

\* C20: when the accumulated weights of the matched context never reach the
\* draw, next() returns the last token of the distribution, in its order.
C20_ShortfallReturnsLastToken ==
  (/\ call.op = "next"
   /\ call.prevList \in DOMAIN the_mapping
   /\ ~FGeq(SumWeights(the_mapping[call.prevList]), call.index))
  => call.retval = the_mapping[call.prevList][Len(the_mapping[call.prevList])].k

\* The sentence the adjacency rule alone assembles from the tokens: a space
\* before a token exactly when the token is not in the no-space-before set
\* and the token before it is not in the no-space-after set.
RECURSIVE Assembled(_)
Assembled(tokens) ==
  IF Len(tokens) <= 1 THEN (IF tokens = <<>> THEN <<>> ELSE Chars(tokens[1]))
  ELSE LET token == tokens[Len(tokens)]
           before == tokens[Len(tokens) - 1]
           space == IF /\ ~TokIn(token, punct_with_no_space_before)
                       /\ ~TokIn(before, punct_with_no_space_after)
                    THEN <<" ">>
                    ELSE <<>>
       IN Assembled(SubSeq(tokens, 1, Len(tokens) - 1)) \o space \o Chars(token)

\* C21: in word mode a single space stands before an appended token exactly
\* when the token is not in the no-space-before set and the token appended
\* before it is not in the no-space-after set, for every order and whatever
\* next() did to the window: the sentence being built is the one the rule
\* assembles from its tokens.
C21_SpaceByAdjacency ==
  (pc = "extend" /\ ~character_tokens) => sent = Assembled(sent_tokens)

\* C22: after training the start list holds each eligible token once: no
\* token stands at two positions of it.
C22_StartsHaveNoDuplicates ==
  \A i, j \in DOMAIN the_starts : the_starts[i] = the_starts[j] => i = j

\* The tokens the claim makes starts: the first token of the text, and every
\* token that follows sentence-ending punctuation at a position 1..n-2
\* (0-based) and is no punctuation with a space after it.
EligibleStarts(t) ==
  {t[1]} \cup {t[i + 2] : i \in {p \in 1..(Len(t) - 2) :
                                   /\ t[p + 1] \in Range(sentence_ending_punct)
                                   /\ t[p + 2] \notin Range(punct_with_space_after)}}

\* C23: after training on t the start list holds t[0] and, of the other
\* tokens, exactly those that follow sentence-ending punctuation at a position
\* 1..n-2 and are no punctuation with a space after it; the first token of
\* every generated sentence is in the start list.
C23_StartsAreEligibleTokens ==
  trained_tokens # <<>> =>
    /\ Range(the_starts) = EligibleStarts(trained_tokens)
    /\ sent_tokens # <<>> => sent_tokens[1] \in Range(the_starts)

\* C23 witness: a sentence was begun with a token that is not the first
\* token of the text but one that follows sentence-ending punctuation in it.
C23_Witness ==
  /\ trained_tokens # <<>>
  /\ sent_tokens # <<>>
  /\ sent_tokens[1] # trained_tokens[1]
  /\ \E p \in 1..(Len(trained_tokens) - 2) :
       /\ trained_tokens[p + 1] \in Range(sentence_ending_punct)
       /\ trained_tokens[p + 2] = sent_tokens[1]

\* The uppercase letters among the modelled characters.
UppercaseLetters == {UpperOf[c] : c \in DOMAIN UpperOf}

\* C24: in a model trained in character mode every member of the start list
\* is an uppercase letter, and so is the first token of every sentence.
C24_CharacterStartsAreUppercase ==
  (character_tokens /\ trained_tokens # <<>>) =>
    /\ \A i \in DOMAIN the_starts : the_starts[i] \in UppercaseLetters
    /\ sent_tokens # <<>> => sent_tokens[1] \in UppercaseLetters

\* C25: every time next() is called during a sentence the window is not
\* empty, holds at most markov_length tokens, and ends with the token chosen
\* last.
C25_WindowWithinOrder ==
  (pc = "extend" /\ Unfinished(curr)) =>
    /\ prevList # <<>>
    /\ Len(prevList) <= markov_length
    /\ prevList[Len(prevList)] = curr
    /\ curr = sent_tokens[Len(sent_tokens)]

\* C25 witness: next() is about to be called on a full window from which
\* the oldest tokens of the sentence have been dropped.
C25_Witness ==
  /\ pc = "extend"
  /\ Unfinished(curr)
  /\ Len(sent_tokens) > markov_length
  /\ Len(prevList) = markov_length
  /\ prevList = SubSeq(sent_tokens, Len(sent_tokens) - markov_length + 1, Len(sent_tokens))

\* A substitution that is not a list or tuple of two items.
Malformed(substitution) ==
  ~(substitution.type \in {"list", "tuple"}) \/ Len(substitution.items) # 2

\* C26: a call of set_final_substitutions or add_final_substitution handed a
\* substitution that is not a two-item list or tuple raises an error and leaves
\* the list of final substitutions as it was; for set_final_substitutions one
\* malformed entry anywhere in the list is enough for nothing to be replaced.
C26_MalformedSubstitutionRejected ==
  [][(SetFinalSubstitutions \/ AddFinalSubstitution) =>
       ((\E i \in DOMAIN offered'.arg : Malformed(offered'.arg[i])) =>
          /\ raised' = "AssertionError"
          /\ final_substitutions' = final_substitutions)]_vars

\* C26 witness: set_final_substitutions was handed a list whose first entry is
\* well formed and whose second is not, while the list in force was not empty;
\* the call raised and the list in force is the one from before the call.
C26_Witness ==
  /\ offered.op = "set_final_substitutions"
  /\ Len(offered.arg) = 2
  /\ ~Malformed(offered.arg[1])
  /\ Malformed(offered.arg[2])
  /\ offered.before # <<>>
  /\ final_substitutions = offered.before
  /\ raised = "AssertionError"

\* C27: a training call on one or two tokens raises no error, and after it the
\* mapping is empty and is_trained() is false; a sentence request that follows
\* is rejected by the assertion: no sentence is begun and no text is yielded.
C27_ShortTrainingRegistersNothing ==
  [][Len(trained_tokens') \in {1, 2} =>
       /\ (trained_tokens' # trained_tokens => raised' = "none")
       /\ the_mapping' = EmptyMapping
       /\ ~is_trained'
       /\ pc' \in {"idle", "loop", "gen", "failed", "stopped", "runtime_error"}
       /\ (pc' = "failed" => raised' = "AssertionError")
       /\ sent_tokens' = <<>> /\ yielded' = <<>>]_vars

\* C27 witness: the model was trained on two tokens, a sentence was then
\* requested, and the request ended in the assertion's error.
C27_Witness ==
  /\ Len(trained_tokens) = 2
  /\ the_starts = <<trained_tokens[1]>>
  /\ sentences_desired > 0
  /\ pc = "failed"
  /\ raised = "AssertionError"

\* Token f followed token a in the text of the last training, at a position
\* the training loop visited (t[i] = a, t[i+1] = f with i in 1 .. n-2, counted
\* from 0).
FollowedInTraining(a, f) ==
  \E i \in 2..(Len(trained_tokens) - 1) :
    trained_tokens[i] = a /\ trained_tokens[i + 1] = f

\* C28: every token appended to a sentence after its start is either the
\* sentinel ".", appended when no non-empty suffix of the window is a context
\* of the table, or a token that followed the previous token of the sentence
\* somewhere in the training text after its first token.
C28_AppendedTokenFollowedInTraining ==
  [][(pc = "extend" /\ sent_tokens' = Append(sent_tokens, curr')) =>
       \/ /\ curr' = "."
          /\ \A c \in Suffixes(prevList) : c \notin DOMAIN the_mapping
       \/ FollowedInTraining(curr, curr')]_vars

\* text_generator's run, which has drawn the first tpos - 1 values of the
\* shared source, stands where chain-interpreter stood after the same values:
\* while it builds a sentence, the sentence (every character, spaces
\* included) and its tokens are those chain-interpreter had, both before
\* capitalization, and the next value waiting for it is of the kind it draws.
SameSoFar ==
  /\ pc = "extend" =>
       /\ tpos - 1 \in DOMAIN reading.trace
       /\ sent = reading.trace[tpos - 1].sent
       /\ sent_tokens = reading.trace[tpos - 1].sent_tokens
       /\ (tpos \in DOMAIN tape =>
             IF Unfinished(curr) THEN tape[tpos] \in Draws
             ELSE tape[tpos] \in Choices(the_starts))
  /\ (pc = "gen" /\ tpos \in DOMAIN tape) => tape[tpos] \in Choices(the_starts)

Outcomes(w) ==
  LET sh == Shorten(w, the_mapping)
  IN IF ~sh.found
     THEN {[retval |-> ".", prevList |-> sh.lst]}
     ELSE {[retval |-> the_mapping[sh.lst][j].k, prevList |-> sh.lst] :
             j \in DOMAIN the_mapping[sh.lst]}

\* The sentences (as assembled, before capitalization) the loop of
\* _gen_sentence can end with from the point where it has tokens, text s and
\* window w; sentences longer than MaxSentLen tokens are not followed.
RECURSIVE Completions(_, _, _)
Completions(tokens, s, w) ==
  IF ~Unfinished(tokens[Len(tokens)]) THEN {s}
  ELSE IF Len(tokens) >= MaxSentLen THEN {}
  ELSE UNION {LET window == Trim(Append(r.prevList, r.retval), markov_length)
              IN Completions(Append(tokens, r.retval),
                             s \o SpaceBefore(r.retval, window) \o Chars(r.retval),
                             window) : r \in Outcomes(w)}

\* The points the loop of _gen_sentence can come to: tokens, text and window.
RECURSIVE Points(_, _, _)
Points(tokens, s, w) ==
  {<<tokens, s, w>>} \cup
    (IF ~Unfinished(tokens[Len(tokens)]) \/ Len(tokens) >= MaxSentLen THEN {}
     ELSE UNION {LET window == Trim(Append(r.prevList, r.retval), markov_length)
                 IN Points(Append(tokens, r.retval),
                           s \o SpaceBefore(r.retval, window) \o Chars(r.retval),
                           window) : r \in Outcomes(w)})

StartTokens == {the_starts[i] : i \in DOMAIN the_starts}

\* Every sentence the model can generate.
AllSentences == UNION {Completions(<<x>>, Chars(x), <<x>>) : x \in StartTokens}

\* From every window that generation can come to, a sentence-ending token
\* can be reached.
EveryWindowCanEnd ==
  \A x \in StartTokens : \A p \in Points(<<x>>, Chars(x), <<x>>) :
    Completions(p[1], p[2], p[3]) # {}

\* A call of _gen_sentence by _produce_text (the outermost call) stands at its
\* entry.
Called == pc = "gen" /\ depth = 0

\* The outermost call of _gen_sentence has returned its sentence.
Returned == pc = "coin"

\* C30: (a) when a sentence-ending token can be reached from every reachable
\* window and some sentence that passes the single-character rule can be
\* generated, then under fair random choice a call of _gen_sentence
\* eventually returns a sentence; (b) when every sentence the model can
\* generate has a one-character residual other than "I", and
\* single-character sentences are disallowed, a call of _gen_sentence goes on
\* retrying forever: it never returns and never ends in any other way.
C30_ReturnsOrRetriesForever ==
  /\ (is_trained /\ EveryWindowCanEnd /\ \E s \in AllSentences : ~Rejected(s))
       => (Called ~> Returned)
  /\ (is_trained /\ AllSentences # {} /\ \A s \in AllSentences : Rejected(s))
       => [](Called => [](pc \in {"gen", "extend"}))

====
